---- MODULE Spec2Model ----
(***************************************************************************)
(* Model of src/ai_service.py: the AIService object (endpoint cursor,      *)
(* conversation history), its remote-call-with-fallback orchestration and  *)
(* the rule-based response selector.                                       *)
(*                                                                         *)
(* A Python str is a sequence of symbols.  Text that the program inspects  *)
(* (messages, keywords, remote texts) is spelled character by character;   *)
(* a fixed phrase of a reply table, which the program only passes on, is   *)
(* one symbol.  A Python value is a record [t |-> type name, v |-> value]. *)
(***************************************************************************)
EXTENDS Integers, Sequences, FiniteSets, TLC

\* ------------------------------------------------------------------------
\* Bounds of the model
\* ------------------------------------------------------------------------

\* longest run of consecutive non-200 answers that is tracked
MaxRun == 4

\* number of words a generated message text is made of, at most
MaxWords == 2

\* ------------------------------------------------------------------------
\* Python values
\* ------------------------------------------------------------------------

PyNone == [t |-> "NoneType", v |-> 0]

PyStr(s) == [t |-> "str", v |-> s]

PyInt(n) == [t |-> "int", v |-> n]

PyList(items) == [t |-> "list", v |-> items]

PyDict(d) == [t |-> "dict", v |-> d]

\* the value of a response body that response.json() cannot parse
InvalidJson == [t |-> "invalid", v |-> 0]

EmptyMap == <<>>

IsStr(x) == x.t = "str"

IsList(x) == x.t = "list"

IsDict(x) == x.t = "dict"

\* bool(x) as used by "if response:" and "if generated_text"
Truthy(x) ==
  CASE x.t = "NoneType" -> FALSE
    [] x.t = "str" -> x.v # <<>>
    [] x.t = "list" -> x.v # <<>>
    [] x.t = "dict" -> DOMAIN x.v # {}
    [] x.t = "int" -> x.v # 0
    [] OTHER -> TRUE

\* ------------------------------------------------------------------------
\* Python str operations
\* ------------------------------------------------------------------------

UpperAlpha == <<"A","B","C","D","E","F","G","H","I","J","K","L","M",
                "N","O","P","Q","R","S","T","U","V","W","X","Y","Z">>

LowerAlpha == <<"a","b","c","d","e","f","g","h","i","j","k","l","m",
                "n","o","p","q","r","s","t","u","v","w","x","y","z">>

LowerChar(c) ==
  IF \E i \in 1..26 : UpperAlpha[i] = c
    THEN LowerAlpha[CHOOSE i \in 1..26 : UpperAlpha[i] = c]
    ELSE c

\* s.lower()
Lower(s) == [i \in 1..Len(s) |-> LowerChar(s[i])]

\* k in s, for two strs
Contains(s, k) ==
  \E i \in 0..(Len(s) - Len(k)) : SubSeq(s, i + 1, i + Len(k)) = k

\* s[:n]
Prefix(s, n) == SubSeq(s, 1, IF Len(s) < n THEN Len(s) ELSE n)

RECURSIVE Replace(_, _)
\* s.replace(old, ""): every non-overlapping occurrence, left to right
Replace(s, old) ==
  IF old = <<>> \/ s = <<>> THEN s
  ELSE IF Len(s) >= Len(old) /\ SubSeq(s, 1, Len(old)) = old
    THEN Replace(SubSeq(s, Len(old) + 1, Len(s)), old)
    ELSE <<s[1]>> \o Replace(Tail(s), old)

Whitespace == {" ", "\n", "\t"}

RECURSIVE LStrip(_)
LStrip(s) == IF s # <<>> /\ s[1] \in Whitespace THEN LStrip(Tail(s)) ELSE s

RECURSIVE RStrip(_)
RStrip(s) ==
  IF s # <<>> /\ s[Len(s)] \in Whitespace
    THEN RStrip(SubSeq(s, 1, Len(s) - 1))
    ELSE s

\* s.strip()
Strip(s) == RStrip(LStrip(s))

\* ------------------------------------------------------------------------
\* Rule-based response selector
\* ------------------------------------------------------------------------

GreetingWords ==
  << <<"h","e","l","l","o">>, <<"h","i">>, <<"h","e","y">>,
     <<"g","o","o","d"," ","m","o","r","n","i","n","g">>,
     <<"g","o","o","d"," ","a","f","t","e","r","n","o","o","n">>,
     <<"g","o","o","d"," ","e","v","e","n","i","n","g">> >>

QuestionMark == <<"?">>

ThanksWords ==
  << <<"t","h","a","n","k">>, <<"t","h","a","n","k","s">>,
     <<"a","p","p","r","e","c","i","a","t","e">> >>

BotWords ==
  << <<"b","o","t">>, <<"r","o","b","o","t">>, <<"a","i">> >>

HelpWords ==
  << <<"h","e","l","p">>, <<"a","s","s","i","s","t">>,
     <<"s","u","p","p","o","r","t">> >>

\* any(w in message_lower for w in words)
AnyIn(words, message_lower) ==
  \E i \in 1..Len(words) : Contains(message_lower, words[i])

\* number of characters of the message echoed by a reply template
EchoLen == 30

\* a fixed phrase
Phrase(p) == PyStr(<<p>>)

\* the whole message echoed, not its first 30 characters
Echo_whole(before, message_lower, after) ==
  PyStr(<<before>> \o message_lower \o <<after>>)

\* f"{before}{message_lower[:30]}{after}"
Echo(before, message_lower, after) ==
  PyStr(<<before>> \o Prefix(message_lower, EchoLen) \o <<after>>)

GroupGreeting ==
  << Phrase("Hey everyone! How's it going?"),
     Phrase("Hello there! Great to see some activity in the group!"),
     Phrase("Hi! Hope everyone's having a good day!"),
     Phrase("Greetings! What's the discussion about today?"),
     Phrase("Hey! Good to see you all here!") >>

GroupQuestion ==
  << Phrase("That's an interesting question! Anyone else have thoughts on this?"),
     Phrase("Good question! I'd love to hear what others think too."),
     Phrase("Hmm, that's worth discussing. What do you all think?"),
     Phrase("Interesting point! Does anyone have experience with this?"),
     Phrase("Great question for the group! Let's see what everyone thinks.") >>

GroupThanks ==
  << Phrase("You're welcome! Happy to help the group!"),
     Phrase("No problem! That's what this community is for!"),
     Phrase("Glad I could contribute to the discussion!"),
     Phrase("Anytime! Love seeing helpful conversations here!"),
     Phrase("You're very welcome! Keep the great discussions going!") >>

GroupBot ==
  << Phrase("Yes, I'm your friendly group bot! Here to help keep conversations interesting!"),
     Phrase("That's me! I'm here to assist and engage with the group!"),
     Phrase("Correct! I'm an AI bot designed to make group chats more interactive!"),
     Phrase("Indeed! I'm here to contribute to your group discussions!"),
     Phrase("Yep! Your resident bot, ready to chat and help out!") >>

GroupHelp ==
  << Phrase("I'm here to help! What can I assist the group with?"),
     Phrase("Happy to help out! What do you need assistance with?"),
     Phrase("Sure thing! How can I support the group today?"),
     Phrase("Of course! I'm here to make things easier for everyone!"),
     Phrase("Absolutely! What kind of help are you looking for?") >>

GroupDefault(message_lower) ==
  << Echo("Interesting point about '", message_lower,
          "...' - what does everyone else think?"),
     Phrase("That's a cool topic! Anyone else want to share their thoughts?"),
     Phrase("Thanks for sharing! I find group discussions really engaging."),
     Phrase("Good point! This group always has such thoughtful conversations."),
     Phrase("I appreciate you bringing this up - it's great to see active discussions!"),
     Phrase("That's worth discussing further! What are your experiences with this?"),
     Phrase("Interesting perspective! I'd love to hear more viewpoints from the group.") >>

PrivateGreeting ==
  << Phrase("Hello! Nice to chat with you personally. How can I help?"),
     Phrase("Hi there! Great to have a one-on-one conversation. What's on your mind?"),
     Phrase("Hey! I'm all ears. What would you like to talk about?"),
     Phrase("Good to see you! How has your day been going?"),
     Phrase("Hello! I'm here and ready to chat. What's new with you?") >>

PrivateQuestion(message_lower) ==
  << Echo("That's a thoughtful question about '", message_lower,
          "...' Let me think about that!"),
     Phrase("You've got me curious now! That's definitely something worth exploring."),
     Phrase("Great question! I find these kinds of topics really engaging."),
     Phrase("That's an interesting way to look at it. What made you think of that?"),
     Phrase("I love questions like this! They really make you think, don't they?") >>

PrivateThanks ==
  << Phrase("You're absolutely welcome! I really enjoy our conversations."),
     Phrase("My pleasure! I'm always happy to chat with you."),
     Phrase("Don't mention it! These discussions are great."),
     Phrase("Anytime! I appreciate you taking the time to chat."),
     Phrase("You're very welcome! Feel free to reach out whenever you want to talk.") >>

PrivateBot ==
  << Phrase("Yes, I'm an AI bot, but I try to make our conversations feel natural and engaging!"),
     Phrase("That's right! I'm here to be your personal chat companion whenever you need one."),
     Phrase("Indeed I am! But I like to think of myself as a friendly conversation partner."),
     Phrase("Correct! I'm designed to have meaningful conversations just like this one."),
     Phrase("Yes, but don't let that stop us from having great chats together!") >>

PrivateHelp ==
  << Phrase("I'd be delighted to help! What's on your mind?"),
     Phrase("Absolutely! I'm here to assist however I can. What do you need?"),
     Phrase("Of course! I love being helpful. How can I support you today?"),
     Phrase("I'm all yours! What kind of assistance are you looking for?"),
     Phrase("Happy to help! Just let me know what you'd like to discuss or work on.") >>

PrivateDefault(message_lower) ==
  << Echo("That's really interesting what you said about '", message_lower,
          "...' Tell me more!"),
     Phrase("I find that fascinating! What's your experience been with that?"),
     Phrase("You've got me thinking now. That's a really good point you make."),
     Phrase("I appreciate you sharing that with me. What led you to that conclusion?"),
     Phrase("That's a unique perspective! I'd love to hear more of your thoughts on it."),
     Phrase("Thanks for bringing that up - it's given me something new to consider!"),
     Phrase("I really enjoy these kinds of conversations with you. What else is on your mind?") >>

\* _get_group_responses with the bot branch tested before the thanks branch
_get_group_responses_bot_first(message_lower) ==
  IF AnyIn(GreetingWords, message_lower) THEN GroupGreeting
  ELSE IF Contains(message_lower, QuestionMark) THEN GroupQuestion
  ELSE IF AnyIn(BotWords, message_lower) THEN GroupBot
  ELSE IF AnyIn(ThanksWords, message_lower) THEN GroupThanks
  ELSE IF AnyIn(HelpWords, message_lower) THEN GroupHelp
  ELSE GroupDefault(message_lower)

_get_group_responses(message_lower) ==
  IF AnyIn(GreetingWords, message_lower) THEN GroupGreeting
  ELSE IF Contains(message_lower, QuestionMark) THEN GroupQuestion
  ELSE IF AnyIn(ThanksWords, message_lower) THEN GroupThanks
  ELSE IF AnyIn(BotWords, message_lower) THEN GroupBot
  ELSE IF AnyIn(HelpWords, message_lower) THEN GroupHelp
  ELSE GroupDefault(message_lower)

_get_private_responses(message_lower) ==
  IF AnyIn(GreetingWords, message_lower) THEN PrivateGreeting
  ELSE IF Contains(message_lower, QuestionMark) THEN PrivateQuestion(message_lower)
  ELSE IF AnyIn(ThanksWords, message_lower) THEN PrivateThanks
  ELSE IF AnyIn(BotWords, message_lower) THEN PrivateBot
  ELSE IF AnyIn(HelpWords, message_lower) THEN PrivateHelp
  ELSE PrivateDefault(message_lower)

GroupChatTypes == {"group", "supergroup"}

\* the group tables used for "group" only, not for "supergroup"
FallbackResponses_group_only(message, chat_type) ==
  LET message_lower == Lower(message)
  IN  IF chat_type = "group"
        THEN _get_group_responses(message_lower)
        ELSE _get_private_responses(message_lower)

\* the list random.choice draws from
FallbackResponses(message, chat_type) ==
  LET message_lower == Lower(message)
  IN  IF chat_type \in GroupChatTypes
        THEN _get_group_responses(message_lower)
        ELSE _get_private_responses(message_lower)

\* random.choice replaced by a fixed pick of the first element
RandomChoice_first(responses) == {responses[1]}

\* random.choice(responses): any element of the list
RandomChoice(responses) == {responses[i] : i \in 1..Len(responses)}

\* the values _generate_smart_fallback(message, chat_type) can return
_generate_smart_fallback(message, chat_type) ==
  RandomChoice(FallbackResponses(message, chat_type))

\* ------------------------------------------------------------------------
\* Remote completion client
\* ------------------------------------------------------------------------

endpoints ==
  << "https://api-inference.huggingface.co/models/microsoft/DialoGPT-medium",
     "https://api-inference.huggingface.co/models/facebook/blenderbot-400M-distill",
     "https://api-inference.huggingface.co/models/microsoft/DialoGPT-small" >>

\* "DialoGPT" in endpoint
IsDialoGPT(endpoint) == endpoint \in {endpoints[1], endpoints[3]}

\* the cursor advanced without wrapping
NextEndpoint_nowrap(cursor) == cursor + 1

\* (self.current_endpoint + 1) % len(self.endpoints)
NextEndpoint(cursor) == (cursor + 1) % Len(endpoints)

\* generated_text[:200]
MaxReplyLen == 200

GeneratedTextKey == "generated_text"

GeneratedTextChars == <<"g","e","n","e","r","a","t","e","d","_","t","e","x","t">>

\* an expression that evaluates to val, or raises
Ok(val) == [exc |-> FALSE, val |-> val]

Raises == [exc |-> TRUE, val |-> PyNone]

\* the key looked up without the "in" test: a dict without it raises
HasGeneratedText_lookup(x) ==
  IF IsDict(x) /\ GeneratedTextKey \in DOMAIN x.v THEN Ok(TRUE) ELSE Raises

\* "generated_text" in x: key of a dict, element of a list, substring of a
\* str, TypeError for anything else
HasGeneratedText(x) ==
  CASE IsDict(x) -> Ok(GeneratedTextKey \in DOMAIN x.v)
    [] IsList(x) -> Ok(\E i \in 1..Len(x.v) : x.v[i] = PyStr(GeneratedTextChars))
    [] IsStr(x) -> Ok(Contains(x.v, GeneratedTextChars))
    [] OTHER -> Raises

\* x["generated_text"]: TypeError unless x is a dict, KeyError without the key
GetGeneratedText(x) ==
  IF IsDict(x) /\ GeneratedTextKey \in DOMAIN x.v
    THEN Ok(x.v[GeneratedTextKey])
    ELSE Raises

\* the value returned whole, not sliced
Slice_whole(x) ==
  CASE IsStr(x) -> Ok(x)
    [] IsList(x) -> Ok(x)
    [] OTHER -> Raises

\* x[:200]: a str or a list can be sliced, anything else raises
Slice(x) ==
  CASE IsStr(x) -> Ok(PyStr(Prefix(x.v, MaxReplyLen)))
    [] IsList(x) -> Ok(PyList(Prefix(x.v, MaxReplyLen)))
    [] OTHER -> Raises

\* the conversation list built for a DialoGPT endpoint: the stored list of
\* the user, or a new list when there is none, with the message appended
Conversation(history, user_id, message) ==
  Append(IF user_id \in DOMAIN history THEN history[user_id] ELSE <<>>, message)

\* the JSON payload of the request
Payload(endpoint, history, user_id, message) ==
  IF IsDialoGPT(endpoint)
    THEN LET conversation == Conversation(history, user_id, message)
         IN  [inputs |->
               [past_user_inputs |->
                  IF Len(conversation) > 1
                    THEN SubSeq(conversation, 1, Len(conversation) - 1)
                    ELSE <<>>,
                generated_responses |-> <<>>,
                text |-> message]]
    ELSE [inputs |-> message,
          parameters |-> [max_length |-> 100, temperature |-> "0.7",
                          do_sample |-> TRUE]]

\* a result of the try block of _try_huggingface_api: it returns ret, or
\* raises, with the cursor as the block leaves it
Returns(ret, cursor) == [exc |-> FALSE, ret |-> ret, cursor |-> cursor]

Throws(cursor) == [exc |-> TRUE, ret |-> PyNone, cursor |-> cursor]

\* a failing endpoint that leaves the cursor where it is
EndpointFails_stay(cursor) == Returns(PyNone, cursor)

\* "If this endpoint fails, try the next one"
EndpointFails(cursor) == Returns(PyNone, NextEndpoint(cursor))

\* generated_text of a list-shaped result, cleaned of the input message
CleanGeneratedText(generated_text, message) ==
  IF Contains(generated_text, message)
    THEN Strip(Replace(generated_text, message))
    ELSE generated_text

\* the try block of _try_huggingface_api from the answer of requests.post on
TryBlock(message, cursor, outcome) ==
  IF outcome.kind # "response" THEN Throws(cursor)
  ELSE IF outcome.status_code # 200 THEN EndpointFails(cursor)
  ELSE IF outcome.body.t = "invalid" THEN Throws(cursor)
  ELSE LET result == outcome.body
       IN  IF IsList(result) /\ Len(result.v) > 0
             THEN LET has == HasGeneratedText(result.v[1])
                      got == GetGeneratedText(result.v[1])
                  IN  IF has.exc THEN Throws(cursor)
                      ELSE IF ~has.val THEN EndpointFails(cursor)
                      ELSE IF got.exc THEN Throws(cursor)
                      ELSE IF ~IsStr(got.val) THEN EndpointFails(cursor)
                      ELSE LET generated_text ==
                                 CleanGeneratedText(got.val.v, message)
                           IN  Returns(IF generated_text # <<>>
                                         THEN PyStr(Prefix(generated_text, MaxReplyLen))
                                         ELSE PyNone,
                                       cursor)
           ELSE IF IsDict(result) /\ GeneratedTextKey \in DOMAIN result.v
             THEN LET sliced == Slice(result.v[GeneratedTextKey])
                  IN  IF sliced.exc THEN Throws(cursor)
                      ELSE Returns(sliced.val, cursor)
           ELSE EndpointFails(cursor)

\* _try_huggingface_api: "except Exception" turns a raise into None
_try_huggingface_api(message, cursor, outcome) ==
  LET r == TryBlock(message, cursor, outcome)
  IN  IF r.exc THEN Returns(PyNone, r.cursor) ELSE r

\* the values generate_response can return once _try_huggingface_api has
\* finished with result tried
GenerateResponseResults(tried, message, chat_type) ==
  IF tried.exc THEN _generate_smart_fallback(message, chat_type)
  ELSE IF Truthy(tried.ret) THEN {tried.ret}
  ELSE _generate_smart_fallback(message, chat_type)

\* ------------------------------------------------------------------------
\* Inputs
\* ------------------------------------------------------------------------

HelloThere == <<"H","e","l","l","o"," ","t","h","e","r","e">>

WhatIsThis == <<"w","h","a","t"," ","i","s"," ","t","h","i","s","?">>

ThankYouBot == <<"t","h","a","n","k"," ","y","o","u"," ","b","o","t">>

\* message texts of the service's callers
Messages == {<<>>, <<"o","k">>, HelloThere, WhatIsThis, ThankYouBot}

Users == {"u1", "u2"}

ChatTypes == {"private", "group", "supergroup", "channel"}

Sure == <<"S","u","r","e">>

LongText == [i \in 1..(MaxReplyLen + 1) |-> "x"]

\* generated texts a remote model can answer a message with
GeneratedTexts(message) ==
  { <<>>, <<" ">>, Sure, LongText, message,
    message \o <<" ">> \o Sure, <<" ">> \o message \o <<" ">> }

\* JSON bodies of an HTTP 200 answer
Bodies(message) ==
  { InvalidJson, PyNone, PyInt(5), PyStr(<<"o","k">>),
    PyList(<<>>),
    PyList(<<PyDict(EmptyMap)>>),
    PyList(<<PyInt(5)>>),
    PyList(<<PyNone>>),
    PyList(<<PyStr(<<"o","k">>)>>),
    PyList(<<PyStr(GeneratedTextChars)>>),
    PyList(<<PyList(<<PyStr(GeneratedTextChars)>>)>>),
    PyList(<<PyDict(GeneratedTextKey :> PyInt(5))>>),
    PyList(<<PyDict(GeneratedTextKey :> PyNone)>>),
    PyDict(EmptyMap),
    PyDict("error" :> PyStr(<<"o","k">>)),
    PyDict(GeneratedTextKey :> PyInt(5)),
    PyDict(GeneratedTextKey :> PyNone),
    PyDict(GeneratedTextKey :> PyDict(EmptyMap)),
    PyDict(GeneratedTextKey :> PyList(<<>>)),
    PyDict(GeneratedTextKey :> PyList(<<PyStr(Sure)>>)) }
  \cup { PyList(<<PyDict(GeneratedTextKey :> PyStr(g))>>) :
           g \in GeneratedTexts(message) }
  \cup { PyDict(GeneratedTextKey :> PyStr(g)) : g \in GeneratedTexts(message) }

\* what requests.post does: it raises, or it returns a response
Outcome(kind, status_code, body) ==
  [kind |-> kind, status_code |-> status_code, body |-> body]

Outcomes(message) ==
  { Outcome("timeout", 0, PyNone), Outcome("connection_error", 0, PyNone) }
  \cup { Outcome("response", code, PyNone) : code \in {404, 503} }
  \cup { Outcome("response", 200, body) : body \in Bodies(message) }

\* ------------------------------------------------------------------------
\* State
\* ------------------------------------------------------------------------

VARIABLES
  current_endpoint,       \* self.current_endpoint
  conversation_history,   \* self.conversation_history: user id -> messages
  pc,                     \* "idle", or "waiting" inside requests.post
  call,                   \* the generate_response call in progress
  last,                   \* the last finished operation and what it returned
  runStart,               \* cursor before the current run of non-200 answers
  runLen,                 \* length of the current run of non-200 answers
  update,                 \* the update handed to handle_message, if any
  handled,                \* what the last handle_message call did
  message_count,          \* BotHandlers.message_count
  group_message_count,    \* BotHandlers.group_message_count
  awaiting                \* handle_message calls suspended in the reply_text
                          \* of their generated response

\* the state of BotHandlers and of the dispatcher
hvars == <<update, handled, message_count, group_message_count, awaiting>>

vars == <<current_endpoint, conversation_history, pc, call, last, runStart,
          runLen, hvars>>

NoOutcome == Outcome("none", 0, PyNone)

NoCall ==
  [message |-> <<>>, user_id |-> "", chat_type |-> "", payload |-> <<>>]

Finished(op, message, user_id, chat_type, outcome, tried, ret) ==
  [op |-> op, message |-> message, user_id |-> user_id,
   chat_type |-> chat_type, outcome |-> outcome, tried |-> tried,
   ret |-> ret, cursor_before |-> current_endpoint,
   history_before |-> conversation_history]

NoLast ==
  [op |-> "none", message |-> <<>>, user_id |-> "", chat_type |-> "",
   outcome |-> NoOutcome, tried |-> PyNone, ret |-> PyNone,
   cursor_before |-> 0, history_before |-> EmptyMap]

NoUpdate ==
  [text |-> <<>>, chat_type |-> "", user_id |-> "", reply_to |-> "",
   bot_username |-> <<>>]

NoHandled ==
  [kind |-> "none", update |-> NoUpdate, is_group |-> FALSE,
   replied |-> FALSE, reply |-> PyNone,
   called |-> FALSE, message_count_before |-> 0,
   group_message_count_before |-> 0]

\* BotHandlers.__init__, and a dispatcher with nothing to hand over
HandlersInit ==
  /\ update = NoUpdate
  /\ handled = NoHandled
  /\ message_count = 0
  /\ group_message_count = 0
  /\ awaiting = 0

\* AIService.__init__
Init ==
  /\ HandlersInit
  /\ current_endpoint = 0
  /\ conversation_history = EmptyMap
  /\ pc = "idle"
  /\ call = NoCall
  /\ last = NoLast
  /\ runStart = 0
  /\ runLen = 0

\* ------------------------------------------------------------------------
\* Operations
\* ------------------------------------------------------------------------

\* generate_response_request with the conversation list stored for the user
generate_response_request_store(message, user_id, chat_type) ==
  /\ pc = "idle"
  /\ pc' = "waiting"
  /\ call' = [message |-> message, user_id |-> user_id,
              chat_type |-> chat_type,
              payload |-> Payload(endpoints[current_endpoint + 1],
                                  conversation_history, user_id, message)]
  /\ last' = NoLast
  /\ conversation_history' =
       IF IsDialoGPT(endpoints[current_endpoint + 1])
         THEN [u \in DOMAIN conversation_history \cup {user_id} |->
                 IF u = user_id
                   THEN Conversation(conversation_history, user_id, message)
                   ELSE conversation_history[u]]
         ELSE conversation_history
  /\ UNCHANGED <<current_endpoint, runStart, runLen>>
  /\ UNCHANGED hvars

\* generate_response up to the request: the endpoint is selected, the
\* payload built and requests.post entered
generate_response_request(message, user_id, chat_type) ==
  /\ pc = "idle"
  /\ pc' = "waiting"
  /\ call' = [message |-> message, user_id |-> user_id,
              chat_type |-> chat_type,
              payload |-> Payload(endpoints[current_endpoint + 1],
                                  conversation_history, user_id, message)]
  /\ last' = NoLast
  /\ UNCHANGED <<current_endpoint, conversation_history, runStart, runLen>>
  /\ UNCHANGED hvars

\* generate_response from the answer of requests.post on: the answer is
\* interpreted, the cursor moved, and the remote text or a fallback returned
generate_response_reply(outcome) ==
  /\ pc = "waiting"
  /\ outcome \in Outcomes(call.message)
  /\ LET tried == _try_huggingface_api(call.message, current_endpoint, outcome)
         failed == outcome.kind = "response" /\ outcome.status_code # 200
     IN  /\ failed => runLen < MaxRun
         /\ current_endpoint' = tried.cursor
         /\ \E ret \in GenerateResponseResults(tried, call.message, call.chat_type) :
              last' = Finished("generate_response", call.message, call.user_id,
                               call.chat_type, outcome, tried.ret, ret)
         /\ runLen' = IF failed THEN runLen + 1 ELSE 0
         /\ runStart' = IF failed THEN runStart ELSE tried.cursor
  /\ pc' = "idle"
  /\ call' = NoCall
  /\ UNCHANGED conversation_history
  /\ UNCHANGED hvars

\* clear_conversation_history storing an empty list instead of deleting
clear_conversation_history_reset(user_id) ==
  /\ pc = "idle"
  /\ conversation_history' =
       [u \in DOMAIN conversation_history \cup {user_id} |->
          IF u = user_id THEN <<>> ELSE conversation_history[u]]
  /\ last' = Finished("clear_conversation_history", <<>>, user_id, "",
                      NoOutcome, PyNone, PyNone)
  /\ UNCHANGED <<current_endpoint, pc, call, runStart, runLen>>
  /\ UNCHANGED hvars

clear_conversation_history(user_id) ==
  /\ pc = "idle"
  /\ conversation_history' =
       IF user_id \in DOMAIN conversation_history
         THEN [u \in DOMAIN conversation_history \ {user_id} |->
                 conversation_history[u]]
         ELSE conversation_history
  /\ last' = Finished("clear_conversation_history", <<>>, user_id, "",
                      NoOutcome, PyNone, PyNone)
  /\ UNCHANGED <<current_endpoint, pc, call, runStart, runLen>>
  /\ UNCHANGED hvars

\* the dict get_conversation_stats returns in the current state
ConversationStats ==
  [active_conversations |-> Cardinality(DOMAIN conversation_history),
   current_endpoint |-> endpoints[current_endpoint + 1],
   total_endpoints |-> Len(endpoints)]

get_conversation_stats ==
  /\ pc = "idle"
  /\ last' = Finished("get_conversation_stats", <<>>, "", "", NoOutcome,
                      PyNone, [t |-> "dict", v |-> ConversationStats])
  /\ UNCHANGED <<current_endpoint, conversation_history, pc, call, runStart, runLen>>
  /\ UNCHANGED hvars

Next ==
  \/ \E message \in Messages, user_id \in Users, chat_type \in ChatTypes :
       generate_response_request(message, user_id, chat_type)
  \/ \E message \in Messages : \E outcome \in Outcomes(message) :
       generate_response_reply(outcome)
  \/ \E user_id \in Users : clear_conversation_history(user_id)
  \/ get_conversation_stats

Spec == Init /\ [][Next]_vars

\* ------------------------------------------------------------------------
\* The response selector on its own: _generate_smart_fallback applied to
\* message texts made of up to MaxWords words
\* ------------------------------------------------------------------------

Words ==
  { <<"H","e","l","l","o">>, <<"h","i">>, <<"H","E","Y">>,
    <<"G","o","o","d"," ","e","v","e","n","i","n","g">>,
    <<"?">>, <<" ">>, <<"t">>,
    <<"T","h","a","n","k","s">>, <<"b","o","t">>, <<"A","I">>,
    <<"h","e","l","p">>, <<"o","k">>,
    <<"W","o","n","d","e","r","f","u","l"," ","w","e","a","t","h","e","r"," ">> }

RECURSIVE Concat(_)
\* the words of a sequence, joined
Concat(ws) == IF ws = <<>> THEN <<>> ELSE Head(ws) \o Concat(Tail(ws))

SelMessages ==
  { Concat(ws) : ws \in UNION { [1..k -> Words] : k \in 0..MaxWords } }
  \cup Messages

SelInit ==
  /\ HandlersInit
  /\ current_endpoint = 0
  /\ conversation_history = EmptyMap
  /\ pc = "selecting"
  /\ \E message \in SelMessages, chat_type \in ChatTypes :
       call = [message |-> message, user_id |-> "", chat_type |-> chat_type,
               payload |-> <<>>]
  /\ last = NoLast
  /\ runStart = 0
  /\ runLen = 0

\* one call of _generate_smart_fallback(call.message, call.chat_type)
SelectFallback ==
  /\ pc = "selecting"
  /\ pc' = "selected"
  /\ \E ret \in _generate_smart_fallback(call.message, call.chat_type) :
       last' = Finished("_generate_smart_fallback", call.message, "",
                        call.chat_type, NoOutcome, PyNone, ret)
  /\ UNCHANGED <<current_endpoint, conversation_history, call, runStart, runLen>>
  /\ UNCHANGED hvars

SelNext == SelectFallback

SelSpec == SelInit /\ [][SelNext]_vars

\* ------------------------------------------------------------------------
\* Properties
\* ------------------------------------------------------------------------

\* the elements of a list
ToSet(list) == {list[i] : i \in DOMAIN list}

CategoryOrder == <<"greeting", "question", "thanks", "bot_identity", "help_request">>

Matches(category, text) ==
  CASE category = "greeting" -> AnyIn(GreetingWords, text)
    [] category = "question" -> Contains(text, QuestionMark)
    [] category = "thanks" -> AnyIn(ThanksWords, text)
    [] category = "bot_identity" -> AnyIn(BotWords, text)
    [] category = "help_request" -> AnyIn(HelpWords, text)
    [] OTHER -> TRUE

\* the earliest category of the order that the text matches
FirstMatch(text) ==
  IF \E i \in 1..Len(CategoryOrder) : Matches(CategoryOrder[i], text)
    THEN CategoryOrder[CHOOSE i \in 1..Len(CategoryOrder) :
                         /\ Matches(CategoryOrder[i], text)
                         /\ \A j \in 1..(i - 1) : ~Matches(CategoryOrder[j], text)]
    ELSE "default"

Categories == ToSet(CategoryOrder) \cup {"default"}

Contexts == {"group", "private"}

ContextOf(chat_type) ==
  IF chat_type \in {"group", "supergroup"} THEN "group" ELSE "private"

\* the candidate set of a category and a chat context, for a lowercased text
CandidateSet(category, context, text) ==
  CASE context = "group" /\ category = "greeting" -> ToSet(GroupGreeting)
    [] context = "group" /\ category = "question" -> ToSet(GroupQuestion)
    [] context = "group" /\ category = "thanks" -> ToSet(GroupThanks)
    [] context = "group" /\ category = "bot_identity" -> ToSet(GroupBot)
    [] context = "group" /\ category = "help_request" -> ToSet(GroupHelp)
    [] context = "group" /\ category = "default" -> ToSet(GroupDefault(text))
    [] context = "private" /\ category = "greeting" -> ToSet(PrivateGreeting)
    [] context = "private" /\ category = "question" -> ToSet(PrivateQuestion(text))
    [] context = "private" /\ category = "thanks" -> ToSet(PrivateThanks)
    [] context = "private" /\ category = "bot_identity" -> ToSet(PrivateBot)
    [] context = "private" /\ category = "help_request" -> ToSet(PrivateHelp)
    [] context = "private" /\ category = "default" -> ToSet(PrivateDefault(text))

Generated == last.op = "generate_response"

Selected == last.op = "_generate_smart_fallback"

\* C1: every generate_response call, whatever the remote outcome, returns a
\* non-empty text string
C1_ReturnsNonEmptyText ==
  Generated => IsStr(last.ret) /\ last.ret.v # <<>>

\* C2: generate_response returns the remote text when _try_huggingface_api
\* yields a non-empty string, and in every other case a member of the
\* fallback candidate set of the message and chat type
C2_RemoteTextOrFallback ==
  Generated =>
    IF IsStr(last.tried) /\ last.tried.v # <<>>
      THEN last.ret = last.tried
      ELSE last.ret \in CandidateSet(FirstMatch(Lower(last.message)),
                                     ContextOf(last.chat_type),
                                     Lower(last.message))

\* C3: after a run of N consecutive generate_response calls answered with a
\* non-200 status, started at cursor c, the cursor is (c + N) mod 3; from
\* c = 0, four such failures leave the cursor at 1
C3_CursorAfterFailures ==
  /\ runLen > 0 => current_endpoint = (runStart + runLen) % 3
  /\ (runStart = 0 /\ runLen = 4) => current_endpoint = 1

C3_FourFailures ==
  /\ Generated
  /\ last.outcome.kind = "response" /\ last.outcome.status_code # 200
  /\ runStart = 0 /\ runLen = 4 /\ current_endpoint = 1

RemoteError(outcome) ==
  \/ outcome.kind \in {"timeout", "connection_error"}
  \/ outcome.kind = "response" /\ outcome.status_code = 200
       /\ outcome.body.t = "invalid"

\* C4: a call whose request hits the deadline or raises a transport or
\* JSON-parse error advances the cursor by exactly one position (mod pool
\* size) and yields no result
C4_ErrorAdvancesCursor ==
  (Generated /\ RemoteError(last.outcome)) =>
    /\ current_endpoint = (last.cursor_before + 1) % 3
    /\ last.tried = PyNone

\* C5: after generate_response(m, u, ...) the conversation log holds an
\* entry for u whose last element is m
C5_LogHoldsMessage ==
  Generated =>
    /\ last.user_id \in DOMAIN conversation_history
    /\ conversation_history[last.user_id] # <<>>
    /\ conversation_history[last.user_id][Len(conversation_history[last.user_id])]
         = last.message

C7_FirstMatchWins ==
  Selected =>
    LET text == Lower(last.message)
        context == ContextOf(last.chat_type)
    IN  /\ last.ret \in CandidateSet(FirstMatch(text), context, text)
        /\ last.message = ThankYouBot =>
             /\ last.ret \in CandidateSet("thanks", context, text)
             /\ last.ret \notin CandidateSet("bot_identity", context, text)

C7_ThankYouBot ==
  /\ Selected
  /\ last.message = ThankYouBot
  /\ last.chat_type = "group"
  /\ last.ret \in ToSet(GroupThanks)

\* C8: "what is this?" in a group context is answered from the group-question
\* set and never from the group-greeting set
C8_WhatIsThisIsQuestion ==
  (Selected /\ last.message = WhatIsThis /\ last.chat_type = "group") =>
    /\ last.ret \in ToSet(GroupQuestion)
    /\ last.ret \notin ToSet(GroupGreeting)

\* C9: _generate_smart_fallback returns a non-empty string of the one
\* candidate set selected for (category, chat context) and of no other set;
\* that set has 5 members, 7 for a default set, and more than one of them is
\* a possible result for a fixed input
C9_MemberOfOneSet ==
  /\ Selected =>
       LET text == Lower(last.message)
           context == ContextOf(last.chat_type)
           category == FirstMatch(text)
       IN  /\ IsStr(last.ret) /\ last.ret.v # <<>>
           /\ last.ret \in CandidateSet(category, context, text)
           /\ \A c \in Categories, x \in Contexts :
                <<c, x>> # <<category, context>> =>
                  last.ret \notin CandidateSet(c, x, text)
           /\ Cardinality(CandidateSet(category, context, text))
                = IF category = "default" THEN 7 ELSE 5
  /\ pc = "selecting" =>
       Cardinality(_generate_smart_fallback(call.message, call.chat_type)) > 1

C9_DefaultEcho ==
  /\ Selected
  /\ last.chat_type = "supergroup"
  /\ FirstMatch(Lower(last.message)) = "default"
  /\ last.message # <<>>
  /\ last.ret = GroupDefault(Lower(last.message))[1]

\* C10: current_endpoint is always an integer in [0, 3), and
\* get_conversation_stats reports one of the three configured URLs as
\* current_endpoint and 3 as total_endpoints
C10_CursorInRange ==
  /\ current_endpoint \in 0..2
  /\ ConversationStats.current_endpoint \in ToSet(endpoints)
  /\ ConversationStats.total_endpoints = 3
  /\ last.op = "get_conversation_stats" =>
       /\ last.ret.v.current_endpoint \in ToSet(endpoints)
       /\ last.ret.v.total_endpoints = 3

C10_StatsAtLastEndpoint ==
  /\ last.op = "get_conversation_stats"
  /\ current_endpoint = 2
  /\ last.ret.v.current_endpoint = endpoints[3]
  /\ last.ret.v.total_endpoints = 3

\* the replies of all group tables, and of all private tables
GroupTables(text) == UNION {CandidateSet(c, "group", text) : c \in Categories}

PrivateTables(text) == UNION {CandidateSet(c, "private", text) : c \in Categories}

\* C11: the selector answers from the group tables exactly when the chat type
\* is "group" or "supergroup", and from the private tables for every other
\* chat type, "private" (the default of generate_response) included
C11_GroupTablesForGroupChats ==
  Selected =>
    LET text == Lower(last.message)
    IN  IF last.chat_type \in {"group", "supergroup"}
          THEN last.ret \in GroupTables(text) /\ last.ret \notin PrivateTables(text)
          ELSE last.ret \in PrivateTables(text) /\ last.ret \notin GroupTables(text)

C11_Supergroup ==
  /\ Selected
  /\ last.chat_type = "supergroup"
  /\ last.message = HelloThere
  /\ last.ret \in ToSet(GroupGreeting)

Answered200 ==
  Generated /\ last.outcome.kind = "response" /\ last.outcome.status_code = 200

HasStrText(x) ==
  /\ IsDict(x)
  /\ GeneratedTextKey \in DOMAIN x.v
  /\ IsStr(x.v[GeneratedTextKey])

\* a parsed body of one of the two accepted shapes
AcceptedShape(body) ==
  \/ IsList(body) /\ body.v # <<>> /\ HasStrText(body.v[1])
  \/ HasStrText(body)

\* a parsed body that is not of an accepted shape
UnexpectedShape(body) == body.t # "invalid" /\ ~AcceptedShape(body)

\* the unexpected shapes that end at the rotation of line 112
RotatingShape(body) ==
  \/ IsList(body) /\ body.v = <<>>
  \/ IsList(body) /\ body.v # <<>> /\ IsDict(body.v[1]) /\ ~HasStrText(body.v[1])
  \/ IsDict(body) /\ GeneratedTextKey \notin DOMAIN body.v
  \/ body.t \notin {"list", "dict", "invalid"}

AcceptedText(body) ==
  IF IsList(body) THEN body.v[1].v[GeneratedTextKey].v
  ELSE body.v[GeneratedTextKey].v

\* C13: on an HTTP 200 answer of either accepted shape, an input message that
\* occurs in the generated text is removed before the text is returned, and
\* there is no result when nothing is left after the removal
C13_MessageRemoved ==
  (/\ Answered200
   /\ AcceptedShape(last.outcome.body)
   /\ last.message # <<>>
   /\ Contains(AcceptedText(last.outcome.body), last.message)) =>
    /\ IsStr(last.tried) => ~Contains(last.tried.v, last.message)
    /\ Replace(AcceptedText(last.outcome.body), last.message) = <<>> =>
         last.tried = PyNone

\* C14: a text returned by _try_huggingface_api has at most 200 characters,
\* and a call that returns a result leaves current_endpoint unchanged
C14_AtMost200 ==
  Generated =>
    /\ IsStr(last.tried) => Len(last.tried.v) <= 200
    /\ last.tried # PyNone => current_endpoint = last.cursor_before

C14_Truncated ==
  /\ Answered200
  /\ IsDict(last.outcome.body)
  /\ HasStrText(last.outcome.body)
  /\ Len(AcceptedText(last.outcome.body)) > 200
  /\ IsStr(last.tried) /\ Len(last.tried.v) = 200
  /\ last.cursor_before = 1 /\ current_endpoint = 1

\* a reply that echoes the message: its first and last symbols are the fixed
\* parts of the template, the symbols between them the echoed characters
IsEcho(reply) == Len(reply.v) >= 2

Echoed(reply) == SubSeq(reply.v, 2, Len(reply.v) - 1)

EchoingSets == {<<"default", "group">>, <<"question", "private">>, <<"default", "private">>}

\* C16 as claimed: the echoed substring is the first 30 characters of the
\* message with its original letter case
C16_EchoKeepsCase ==
  (Selected /\ IsEcho(last.ret)) =>
    Echoed(last.ret) = Prefix(last.message, 30)

\* C16 as amended: only replies of the group default, private question and
\* private default sets echo the input, and the echoed substring is the first
\* 30 characters of the lowercased message
C16_EchoIsLowercased ==
  (Selected /\ IsEcho(last.ret)) =>
    /\ Echoed(last.ret) = Prefix(Lower(last.message), 30)
    /\ Len(Echoed(last.ret)) <= 30
    /\ <<FirstMatch(Lower(last.message)), ContextOf(last.chat_type)>> \in EchoingSets

C16_LongMixedCaseEcho ==
  /\ Selected
  /\ last.chat_type = "private"
  /\ Len(last.message) > 30
  /\ Prefix(last.message, 30) # Prefix(Lower(last.message), 30)
  /\ IsEcho(last.ret)
  /\ Len(Echoed(last.ret)) = 30

\* the conversation payload of the request in progress, when the endpoint
\* takes one
StructuredPayload ==
  pc = "waiting" /\ IsDialoGPT(endpoints[current_endpoint + 1])

MaxCount == 2

\* handle_message calls suspended at the reply_text of their generated
\* response at the same time, at most
MaxInFlight == 2

\* Telegram's message limit
MaxMessageLen == 4096

MyBot == <<"m","y","b","o","t">>

\* context.bot.username: a name, or none
BotUsernames == {<<>>, MyBot}

\* f"@{bot_username}"
MentionOf(bot_username) == <<"@">> \o bot_username

TooLong == [i \in 1..(MaxMessageLen + 1) |-> "x"]

\* message.text of an update
UpdateTexts ==
  { <<>>, <<" ">>, <<"o","k">>, TooLong,
    MentionOf(MyBot), MentionOf(MyBot) \o <<" ","o","k">> }

\* message.reply_to_message: none, a message of the bot, or a message of
\* another user
ReplyTargets == {"none", "bot", "user"}

Updates ==
  [text : UpdateTexts, chat_type : {"private", "group", "supergroup"},
   user_id : {"u1"}, reply_to : ReplyTargets, bot_username : BotUsernames]

\* remote outcomes of the calls made by handle_message
HandlerOutcomes ==
  { Outcome("timeout", 0, PyNone),
    Outcome("response", 503, PyNone),
    Outcome("response", 200,
            PyList(<<PyDict(GeneratedTextKey :> PyStr(Sure))>>)) }

\* is_valid_message(message_text)
is_valid_message(message_text) ==
  IF message_text = <<>> THEN FALSE
  ELSE IF Strip(message_text) = <<>> THEN FALSE
  ELSE IF Len(message_text) > MaxMessageLen THEN FALSE
  ELSE TRUE

\* f"@{bot_username}" in message_text if bot_username else False
IsMentioned(message_text, bot_username) ==
  IF bot_username # <<>>
    THEN Contains(message_text, MentionOf(bot_username))
    ELSE FALSE

InvalidReply ==
  Phrase("I received your message, but it seems to be empty or invalid. Please try again!")

\* the path handle_message takes for an update u, and the text it passes on
HandlePath(u) ==
  LET is_group == u.chat_type \in {"group", "supergroup"}
      is_mentioned == IsMentioned(u.text, u.bot_username)
      is_reply_to_bot == u.reply_to = "bot"
      path(kind, text) == [kind |-> kind, text |-> text, is_group |-> is_group]
  IN  IF u.text = <<>> THEN path("no_text", <<>>)
      ELSE IF ~is_valid_message(u.text) THEN path("invalid", <<>>)
      ELSE IF ~is_group THEN path("respond", u.text)
      ELSE IF ~(is_mentioned \/ is_reply_to_bot) THEN path("ignored", <<>>)
      ELSE IF is_mentioned /\ u.bot_username # <<>>
        THEN path("respond", Strip(Replace(u.text, MentionOf(u.bot_username))))
        ELSE path("respond", u.text)

Handled(p, replied, reply, called) ==
  [kind |-> p.kind, update |-> update, is_group |-> p.is_group,
   replied |-> replied, reply |-> reply,
   called |-> called, message_count_before |-> message_count,
   group_message_count_before |-> group_message_count]

\* the dispatcher hands an update to handle_message
receive_update(u) ==
  /\ pc = "idle"
  /\ update = NoUpdate
  /\ update' = u
  /\ handled' = NoHandled
  /\ last' = NoLast
  /\ UNCHANGED <<current_endpoint, conversation_history, pc, call, runStart,
                 runLen, message_count, group_message_count, awaiting>>

\* handle_message from its entry to its return or to the reply_text it
\* awaits; generate_response runs inside it without a suspension point
handle_message(outcome) ==
  /\ pc = "idle"
  /\ update # NoUpdate
  /\ update' = NoUpdate
  /\ LET p == HandlePath(update)
     IN  CASE p.kind \in {"no_text", "ignored"} ->
                /\ outcome = NoOutcome
                /\ handled' = Handled(p, FALSE, PyNone, FALSE)
                /\ UNCHANGED <<current_endpoint, last, message_count,
                               group_message_count, awaiting, runStart, runLen>>
           [] p.kind = "invalid" ->
                /\ outcome = NoOutcome
                /\ handled' = Handled(p, TRUE, InvalidReply, FALSE)
                /\ UNCHANGED <<current_endpoint, last, message_count,
                               group_message_count, awaiting, runStart, runLen>>
           [] OTHER ->
                /\ outcome \in HandlerOutcomes
                /\ awaiting < MaxInFlight
                /\ message_count < MaxCount
                /\ group_message_count' =
                     IF p.is_group THEN group_message_count + 1
                                   ELSE group_message_count
                /\ message_count' = message_count + 1
                /\ LET tried == _try_huggingface_api(p.text, current_endpoint, outcome)
                       failed == outcome.kind = "response" /\ outcome.status_code # 200
                   IN  /\ failed => runLen < MaxRun
                       /\ current_endpoint' = tried.cursor
                       /\ \E ret \in GenerateResponseResults(tried, p.text,
                                                             update.chat_type) :
                            /\ last' = Finished("generate_response", p.text,
                                                update.user_id, update.chat_type,
                                                outcome, tried.ret, ret)
                            /\ handled' = Handled(p, TRUE, ret, TRUE)
                       /\ runLen' = IF failed THEN runLen + 1 ELSE 0
                       /\ runStart' = IF failed THEN runStart ELSE tried.cursor
                /\ awaiting' = awaiting + 1
  /\ UNCHANGED <<conversation_history, pc, call>>

\* the reply_text of a generated response completes and the handle_message
\* awaiting it returns
reply_sent ==
  /\ awaiting > 0
  /\ awaiting' = awaiting - 1
  /\ UNCHANGED <<current_endpoint, conversation_history, pc, call, last,
                 runStart, runLen, update, handled, message_count,
                 group_message_count>>

HandlerNext ==
  \/ \E u \in Updates : receive_update(u)
  \/ \E outcome \in HandlerOutcomes \cup {NoOutcome} : handle_message(outcome)
  \/ reply_sent

HandlerSpec == Init /\ [][HandlerNext]_vars

\* ------------------------------------------------------------------------
\* Properties of handle_message
\* ------------------------------------------------------------------------

\* handle_message has decided what to do with an update
Decided == handled.kind # "none"

\* the text contains @<bot username>, or the message replies to the bot
Addressed ==
  \/ IsMentioned(handled.update.text, handled.update.bot_username)
  \/ handled.update.reply_to = "bot"

CountersUnchanged ==
  /\ message_count = handled.message_count_before
  /\ group_message_count = handled.group_message_count_before

\* the generate_response call made by the last handle_message, while another
\* handle_message that made one is still suspended
ConcurrentCall == awaiting >= 2 /\ handled.called

C17_GroupSilentUnlessAddressed ==
  /\ (Decided /\ handled.is_group /\ ~Addressed) =>
       ~handled.replied /\ ~handled.called /\ CountersUnchanged
  /\ (handled.is_group /\ handled.called) =>
       /\ message_count = handled.message_count_before + 1
       /\ group_message_count = handled.group_message_count_before + 1
  /\ group_message_count <= message_count

\* C19: the text handle_message passes to generate_response satisfies
\* is_valid_message, also after the mention was removed in a group chat
C19_GenerateResponseGetsValidText ==
  handled.called => is_valid_message(last.message)

====
